---- MODULE Spec2Model ----
(***************************************************************************)
(* A state-machine model of smile2dock.py: the command-line dispatch, the  *)
(* per-molecule pipeline smiles_to_3d, and its two callers single_process  *)
(* and batch_process.  The chemistry libraries (Dimorphite-DL, RDKit,      *)
(* OpenBabel) and the operating system are the environment: each call into *)
(* them either answers or raises, chosen nondeterministically.             *)
(***************************************************************************)
EXTENDS Integers, Sequences, FiniteSets, TLC

\* ------------------------------------------------------------------ bounds
MaxLines == 2          \* longest input file, in lines
MaxFaults == 1         \* library/OS calls that raise during one invocation

\* ------------------------------------------------------- program constants
DefaultPrecision == 10     \* precision=1.0, in tenths
DefaultMaxVariants == 128  \* max_variants=128

\* ------------------------------------------------------------ input values
ValidSmiles == {"CCO", "CC[O-]"}
LineValues == {"", "CCO", "XX"}         \* a stripped line of the input file
PrecisionValues == {DefaultPrecision, 5}
MaxVariantsValues == {DefaultMaxVariants, 1}
ReferenceValues == {"None", "CCO", "XX"}   \* --reference absent, valid, invalid

\* mol.GetNumConformers() after the embedding: none, or some of the num_confs.
ConformerCounts == {0, 1}

Formats == <<"pdb", "mol2", "sdf", "pdbqt">>

PropertyKeys ==
  {"Molecular Weight", "Crippen_LogP", "Crippen_MR", "H-Bond Donors",
   "H-Bond Acceptors", "TPSA", "Rotatable Bonds", "#Aliphatic Rings",
   "#Aromatic Rings", "#Heteroaromatic Rings"}

\* ----------------------------------------------------------- Python values
\* None and a value share one record shape, so that they compare.
NoneMol == [some |-> FALSE, smiles |-> "", confs |-> 0]
NoneProps == [some |-> FALSE, keys |-> {}]
NoneList == [some |-> FALSE, list |-> <<>>]
SomeList(l) == [some |-> TRUE, list |-> l]

\* Python truthiness of a dict or list that may be None.
TruthyProps(p) == p.some /\ p.keys # {}
TruthyList(v) == v.some /\ Len(v.list) > 0

\* Chem.MolFromSmiles: None for a string that is no SMILES.
MolFromSmiles(s) ==
  IF s \in ValidSmiles THEN [some |-> TRUE, smiles |-> s, confs |-> 0] ELSE NoneMol

\* What dimorphite_dl.protonate_smiles may do for s: answer a list (no variant,
\* or a deprotonated one before s itself), or raise.
LibraryAnswers(s) ==
  {[raised |-> FALSE, list |-> l] : l \in {<<>>, <<"CC[O-]", s>>}}
  \cup {[raised |-> TRUE, list |-> <<>>]}

Raise == "raise"

VARIABLES
  args,       \* the parsed command line
  lines,      \* the input file's lines, stripped (batch mode)
  prior,      \* whether an earlier single-mode invocation left its files behind
  pc,         \* the program's position
  idx,        \* batch_process: index of the line being processed
  refMol,     \* ref_mol
  loc,        \* smiles_to_3d: its parameters and locals
  fmtI,       \* smiles_to_3d: position in the format loop
  confI,      \* smiles_to_3d: conf_id of the optimisation loop
  ret,        \* the triple smiles_to_3d returned last
  dirs,       \* directories that exist
  files,      \* files that exist
  pfile,      \* protonation_states.txt
  libCall,    \* the arguments of the last call into dimorphite_dl
  faults,     \* calls that raised so far
  crashSite,  \* where an exception left the program, "" if none did
  stages,     \* history: the stages run for the current molecule, in order
  attempts,   \* history: formats the current call tried to write, in order
  env,        \* history: what the libraries answered for the current molecule
  written,    \* history: formats the current call wrote
  madeDir,    \* history: whether the current call created a directory
  calls,      \* history: line indices passed to smiles_to_3d
  simCalls,   \* history: calls of calculate_tanimoto_similarity, this molecule
  simResult,  \* history: what that call returned
  reported    \* history: similarity lines printed for this molecule

vars == <<args, lines, prior, pc, idx, refMol, loc, fmtI, confI, ret, dirs, files,
          pfile, libCall, faults, crashSite, stages, attempts, env, written, madeDir,
          calls, simCalls, simResult, reported>>

\* ------------------------------------------------------------ environment
\* A library or OS call may raise while the fault budget lasts.
CanFail == faults < MaxFaults

EmptyEnv ==
  [prot |-> "none", variants |-> <<>>, parse |-> "none", embed |-> "none", nconfs |-> 0,
   convert |-> "none", makedirs |-> "none", writeFail |-> {}, props |-> "none"]

NoLibCall == [called |-> FALSE, precision |-> 0, max_variants |-> 0]

ClosedFile == [opened |-> FALSE, closed |-> FALSE, content |-> <<>>]

\* A path <output_base>.<fmt>; an output base is a directory and a stem
\* (0: the single-mode base name, i > 0: mol_i of batch mode).
FilePath(base, fmt) == [dir |-> base.dir, stem |-> base.stem, fmt |-> fmt]

FormatSet == {Formats[i] : i \in 1..Len(Formats)}

\* What an earlier invocation with the same --output may have left behind.
PriorDirs == {"out"}
PriorFiles ==
  {[dir |-> d, stem |-> s, fmt |-> f] : d \in {"", "out"}, s \in {0}, f \in FormatSet}

\* ------------------------------------------------------------------- Init
RECURSIVE SeqsUpTo(_, _)
SeqsUpTo(S, n) ==
  IF n = 0 THEN {<<>>}
  ELSE LET shorter == SeqsUpTo(S, n - 1)
       IN shorter \cup {Append(q, x) : q \in {r \in shorter : Len(r) = n - 1}, x \in S}

\* The command lines: os.path.isfile(args.input) decides the mode.  `output`
\* is the directory part of --output ("" for a bare base name such as the
\* default); its last component is left out, being the same in every run.
BatchArgs ==
  [batch : {TRUE}, input : {"file"}, output : {"out"}, protonate : BOOLEAN,
   precision : PrecisionValues, max_variants : MaxVariantsValues,
   reference : ReferenceValues]

SingleArgs ==
  [batch : {FALSE}, input : {"CCO", "XX"}, output : {"", "out"}, protonate : BOOLEAN,
   precision : PrecisionValues, max_variants : MaxVariantsValues,
   reference : ReferenceValues]

\* The command lines tried: --precision and --max_variants are given together
\* or not at all, and only with --protonate.
ReadsProtonationOptions(a) ==
  /\ ~a.protonate => a.precision = DefaultPrecision
  /\ a.precision = DefaultPrecision <=> a.max_variants = DefaultMaxVariants

BlankLoc ==
  [smiles |-> "", orig |-> "", base |-> [dir |-> "", stem |-> 0],
   optimize |-> TRUE, protonate |-> FALSE, mol |-> NoneMol, variants |-> NoneList]

Init ==
  /\ args \in {a \in BatchArgs \cup SingleArgs : ReadsProtonationOptions(a)}
  /\ lines \in (IF args.batch THEN SeqsUpTo(LineValues, MaxLines) ELSE {<<>>})
  /\ prior \in (IF args.batch THEN {FALSE} ELSE BOOLEAN)
  /\ pc = "main"
  /\ idx = 0
  /\ refMol = NoneMol
  /\ loc = BlankLoc
  /\ fmtI = 1
  /\ confI = 0
  /\ ret = <<NoneMol, NoneProps, NoneList>>
  /\ dirs = (IF prior THEN PriorDirs ELSE {})
  /\ files = (IF prior THEN PriorFiles ELSE {})
  /\ pfile = ClosedFile
  /\ libCall = NoLibCall
  /\ faults = 0
  /\ crashSite = ""
  /\ stages = <<>>
  /\ attempts = <<>>
  /\ env = EmptyEnv
  /\ written = {}
  /\ madeDir = FALSE
  /\ calls = <<>>
  /\ simCalls = 0
  /\ simResult = "none"
  /\ reported = 0

\* ---------------------------------------------------------- protonate_smiles
\* The keyword arguments smiles_to_3d's call leaves to protonate_smiles'
\* defaults: protonate_smiles(smiles, ph_min, ph_max).
PassedPrecision(a) == DefaultPrecision
PassedMaxVariants(a) == DefaultMaxVariants

\* protonate_smiles: the library's answer, or [smiles] when it raised.
ProtonateSmilesDropsOriginal(smiles, answer) ==
  IF answer.raised THEN <<>> ELSE answer.list
ProtonateSmiles(smiles, answer) ==
  IF answer.raised THEN <<smiles>> ELSE answer.list

\* ------------------------------------------------------------- smiles_to_3d
\* Where smiles_to_3d returns to.
ReturnPc == IF args.batch THEN "b_after" ELSE "s1_after"

\* The raise sites that lie inside a try block of smiles_to_3d or of
\* protonate_smiles; a raise anywhere else leaves the program.
CaughtSitesWithoutMakedirs ==
  {"dimorphite", "first_variant", "embed", "optimize", "convert", "write", "props"}
CaughtSites ==
  {"dimorphite", "first_variant", "embed", "optimize", "convert", "makedirs",
   "write", "props"}

\* An exception from `site` while the locals' variants are v: the except
\* clause that returns (None, None, protonated_variants), or no handler.
Throw(site, v) ==
  IF site \in CaughtSites
  THEN /\ ret' = <<NoneMol, NoneProps, v>>
       /\ pc' = ReturnPc
       /\ crashSite' = crashSite
  ELSE /\ ret' = ret
       /\ pc' = "crashed"
       /\ crashSite' = site

\* The entry of smiles_to_3d(smiles, base, num_confs, protonate=...): the
\* parameters, and protonated_variants = None.
Enter(smiles, base) ==
  /\ loc' = [smiles |-> smiles, orig |-> smiles, base |-> base, optimize |-> TRUE,
             protonate |-> args.protonate, mol |-> NoneMol, variants |-> NoneList]
  /\ fmtI' = 1
  /\ confI' = 0
  /\ stages' = <<>>
  /\ attempts' = <<>>
  /\ env' = EmptyEnv
  /\ written' = {}
  /\ madeDir' = FALSE
  /\ simCalls' = 0
  /\ simResult' = "none"
  /\ reported' = 0
  /\ pc' = "protonate"

\* `if protonate:`
ShouldProtonateAlways(protonate) == TRUE
ShouldProtonate(protonate) == protonate

\* Lines 47-59: protonate and take the first variant, or keep the SMILES.
Protonate ==
  /\ pc = "protonate"
  /\ IF ShouldProtonate(loc.protonate)
     THEN \E answer \in LibraryAnswers(loc.smiles) :
            /\ answer.raised => CanFail
            /\ LET pv == ProtonateSmiles(loc.smiles, answer)
               IN /\ faults' = (IF answer.raised THEN faults + 1 ELSE faults)
                  /\ libCall' = [called |-> TRUE, precision |-> PassedPrecision(args),
                                 max_variants |-> PassedMaxVariants(args)]
                  /\ stages' = Append(stages, "protonate")
                  /\ env' = [env EXCEPT !.prot = (IF answer.raised THEN Raise ELSE "list"),
                                        !.variants = answer.list]
                  /\ IF Len(pv) = 0
                     THEN /\ Throw("first_variant", SomeList(pv))
                          /\ loc' = [loc EXCEPT !.variants = SomeList(pv)]
                     ELSE /\ loc' = [loc EXCEPT !.variants = SomeList(pv), !.smiles = pv[1]]
                          /\ pc' = "parse"
                          /\ UNCHANGED <<ret, crashSite>>
     ELSE /\ loc' = [loc EXCEPT !.variants = SomeList(<<loc.smiles>>)]
          /\ pc' = "parse"
          /\ UNCHANGED <<ret, crashSite, faults, libCall, stages, env>>
  /\ UNCHANGED <<args, lines, prior, idx, refMol, fmtI, confI, dirs, files, pfile,
                 attempts, written, madeDir, calls, simCalls, simResult, reported>>

\* Lines 61-66: Chem.MolFromSmiles and Chem.AddHs.
Parse ==
  /\ pc = "parse"
  /\ LET mol == MolFromSmiles(loc.smiles)
     IN IF ~mol.some
        THEN /\ ret' = <<NoneMol, NoneProps, loc.variants>>
             /\ pc' = ReturnPc
             /\ loc' = loc
             /\ env' = [env EXCEPT !.parse = "invalid"]
        ELSE /\ loc' = [loc EXCEPT !.mol = mol]
             /\ pc' = "embed"
             /\ ret' = ret
             /\ env' = [env EXCEPT !.parse = "ok"]
  /\ UNCHANGED <<args, lines, prior, idx, refMol, fmtI, confI, dirs, files, pfile,
                 libCall, faults, crashSite, stages, attempts, written, madeDir,
                 calls, simCalls, simResult, reported>>

\* `if optimize:`
PcAfterEmbed(optimize) == IF optimize THEN "optimize" ELSE "convert"

\* Lines 67-77: AllChem.EmbedMultipleConfs.
Embed ==
  /\ pc = "embed"
  /\ stages' = Append(stages, "embed")
  /\ \/ /\ CanFail
        /\ faults' = faults + 1
        /\ env' = [env EXCEPT !.embed = Raise]
        /\ Throw("embed", loc.variants)
        /\ loc' = loc
     \/ \E n \in ConformerCounts :
          /\ loc' = [loc EXCEPT !.mol.confs = n]
          /\ env' = [env EXCEPT !.embed = "ok", !.nconfs = n]
          /\ pc' = PcAfterEmbed(loc.optimize)
          /\ UNCHANGED <<ret, crashSite, faults>>
  /\ confI' = 0
  /\ UNCHANGED <<args, lines, prior, idx, refMol, fmtI, dirs, files, pfile, libCall,
                 attempts, written, madeDir, calls, simCalls, simResult, reported>>

\* Lines 79-89: AllChem.MMFFOptimizeMolecule on each conformer; a failure is
\* logged as a warning and the loop goes on.
Optimize ==
  /\ pc = "optimize"
  /\ stages' = (IF confI = 0 THEN Append(stages, "optimize") ELSE stages)
  /\ IF confI < loc.mol.confs
     THEN /\ confI' = confI + 1
          /\ pc' = pc
          /\ \/ faults' = faults
             \/ /\ CanFail
                /\ faults' = faults + 1
     ELSE /\ pc' = "convert"
          /\ UNCHANGED <<confI, faults>>
  /\ UNCHANGED <<args, lines, prior, idx, refMol, loc, fmtI, ret, dirs, files, pfile,
                 libCall, crashSite, attempts, env, written, madeDir, calls,
                 simCalls, simResult, reported>>

\* Lines 91-97: Chem.MolToMolBlock and pybel.readstring.
Convert ==
  /\ pc = "convert"
  /\ \/ /\ CanFail
        /\ faults' = faults + 1
        /\ env' = [env EXCEPT !.convert = Raise]
        /\ Throw("convert", loc.variants)
     \/ /\ env' = [env EXCEPT !.convert = "ok"]
        /\ pc' = "ensure_dir"
        /\ UNCHANGED <<ret, crashSite, faults>>
  /\ UNCHANGED <<args, lines, prior, idx, refMol, loc, fmtI, confI, dirs, files, pfile,
                 libCall, stages, attempts, written, madeDir, calls, simCalls,
                 simResult, reported>>

\* ensure_output_dir's test: `if out_dir and not os.path.exists(out_dir)`.
NeedsMakedirs(out_dir, existing) == out_dir # "" /\ out_dir \notin existing

\* Line 100: ensure_output_dir(output_base); os.makedirs may raise, inside
\* smiles_to_3d's outer try.
EnsureDir ==
  /\ pc = "ensure_dir"
  /\ LET out_dir == loc.base.dir
     IN IF NeedsMakedirs(out_dir, dirs)
        THEN \/ /\ CanFail
                /\ faults' = faults + 1
                /\ env' = [env EXCEPT !.makedirs = Raise]
                /\ Throw("makedirs", loc.variants)
                /\ UNCHANGED <<dirs, madeDir>>
             \/ /\ dirs' = dirs \cup {out_dir}
                /\ madeDir' = TRUE
                /\ env' = [env EXCEPT !.makedirs = "created"]
                /\ pc' = "write"
                /\ UNCHANGED <<ret, crashSite, faults>>
        ELSE /\ env' = [env EXCEPT !.makedirs = "exists"]
             /\ pc' = "write"
             /\ UNCHANGED <<ret, crashSite, faults, dirs, madeDir>>
  /\ fmtI' = 1
  /\ UNCHANGED <<args, lines, prior, idx, refMol, loc, confI, files, pfile, libCall,
                 stages, attempts, written, calls, simCalls, simResult, reported>>

\* ob_mol.write(fmt, output, overwrite=True): an existing file is no obstacle.
WriteRefusedIfExists(path, existing) == path \in existing
WriteRefused(path, existing) == FALSE

\* After the format at position i of the loop `for fmt in [...]`.
PcAfterWriteStopsAtFailure(i, failed) ==
  IF i = Len(Formats) \/ failed THEN "props" ELSE "write"
PcAfterWrite(i, failed) == IF i = Len(Formats) THEN "props" ELSE "write"

\* Lines 102-108: one iteration of the format loop; a failed write is logged.
Write ==
  /\ pc = "write"
  /\ fmtI <= Len(Formats)
  /\ LET fmt == Formats[fmtI]
         path == FilePath(loc.base, fmt)
     IN \E envFails \in BOOLEAN :
          /\ envFails => CanFail
          /\ LET failed == envFails \/ WriteRefused(path, files)
             IN /\ faults' = (IF envFails THEN faults + 1 ELSE faults)
                /\ env' = (IF envFails THEN [env EXCEPT !.writeFail = @ \cup {fmt}] ELSE env)
                /\ files' = (IF failed THEN files ELSE files \cup {path})
                /\ written' = (IF failed THEN written ELSE written \cup {fmt})
                /\ pc' = PcAfterWrite(fmtI, failed)
          /\ attempts' = Append(attempts, fmt)
          /\ stages' = (IF fmtI = 1 THEN Append(stages, "export") ELSE stages)
          /\ fmtI' = fmtI + 1
  /\ UNCHANGED <<args, lines, prior, idx, refMol, loc, confI, ret, dirs, pfile, libCall,
                 crashSite, madeDir, calls, simCalls, simResult, reported>>

\* Lines 110-128: the descriptors, {} when one of them raises; the return.
Props ==
  /\ pc = "props"
  /\ stages' = Append(stages, "descriptors")
  /\ \/ /\ CanFail
        /\ faults' = faults + 1
        /\ env' = [env EXCEPT !.props = Raise]
        /\ ret' = <<loc.mol, [some |-> TRUE, keys |-> {}], loc.variants>>
     \/ /\ faults' = faults
        /\ env' = [env EXCEPT !.props = "ok"]
        /\ ret' = <<loc.mol, [some |-> TRUE, keys |-> PropertyKeys], loc.variants>>
  /\ pc' = ReturnPc
  /\ UNCHANGED <<args, lines, prior, idx, refMol, loc, fmtI, confI, dirs, files, pfile,
                 libCall, crashSite, attempts, written, madeDir, calls, simCalls,
                 simResult, reported>>

\* ------------------------------------------------- calculate_tanimoto_similarity
\* Lines 134-145: None when a molecule is None, otherwise what the
\* fingerprint library answers (a score, or an exception that is not caught).
CalculateTanimotoSimilarity(mol1, mol2, answer) ==
  IF ~mol1.some \/ ~mol2.some THEN "None" ELSE answer

\* The position after a molecule's similarity step.
PcAfterMolecule == IF args.batch THEN "b_line" ELSE "done"

\* Lines 183-185 and 214-216: the call and the report of its result.
Similarity ==
  /\ pc = "sim"
  /\ simCalls' = simCalls + 1
  /\ stages' = Append(stages, "similarity")
  /\ \E answer \in {"score", Raise} :
       /\ answer = Raise => CanFail /\ ret[1].some /\ refMol.some
       /\ LET similarity == CalculateTanimotoSimilarity(ret[1], refMol, answer)
          IN IF similarity = Raise
             THEN /\ faults' = faults + 1
                  /\ Throw("similarity", loc.variants)
                  /\ UNCHANGED <<simResult, reported, idx>>
             ELSE /\ simResult' = similarity
                  /\ reported' = (IF similarity # "None" THEN reported + 1 ELSE reported)
                  /\ pc' = PcAfterMolecule
                  /\ idx' = (IF args.batch THEN idx + 1 ELSE idx)
                  /\ UNCHANGED <<ret, crashSite, faults>>
  /\ UNCHANGED <<args, lines, prior, refMol, loc, fmtI, confI, dirs, files, pfile,
                 libCall, attempts, env, written, madeDir, calls>>

\* ---------------------------------------------------------------- __main__
\* Lines 250-260: batch mode creates the output directory and runs
\* batch_process; otherwise single_process.
Dispatch ==
  /\ pc = "main"
  /\ IF args.batch
     THEN /\ dirs' = dirs \cup {args.output}
          /\ pc' = "b_setup"
     ELSE /\ dirs' = dirs
          /\ pc' = "s1_call"
  /\ UNCHANGED <<args, lines, prior, idx, refMol, loc, fmtI, confI, ret, files, pfile,
                 libCall, faults, crashSite, stages, attempts, env, written, madeDir,
                 calls, simCalls, simResult, reported>>

\* ---------------------------------------------------------- single_process
\* Lines 194-196: the call of smiles_to_3d.
SingleCall ==
  /\ pc = "s1_call"
  /\ Enter(args.input, [dir |-> args.output, stem |-> 0])
  /\ UNCHANGED <<args, lines, prior, idx, refMol, ret, dirs, files, pfile, libCall,
                 faults, crashSite, calls>>

\* `if props:` and, inside it, the reference test.
WantsSimilarity(r, reference) == TruthyProps(r[2]) /\ reference # "None"

\* Lines 198-218: the report, and the reference molecule.
SingleAfter ==
  /\ pc = "s1_after"
  /\ IF WantsSimilarity(ret, args.reference)
     THEN LET ref_mol == MolFromSmiles(args.reference)
          IN /\ refMol' = ref_mol
             /\ pc' = (IF ref_mol.some THEN "sim" ELSE "done")
     ELSE /\ refMol' = refMol
          /\ pc' = "done"
  /\ UNCHANGED <<args, lines, prior, idx, loc, fmtI, confI, ret, dirs, files, pfile,
                 libCall, faults, crashSite, stages, attempts, env, written, madeDir,
                 calls, simCalls, simResult, reported>>

\* ----------------------------------------------------------- batch_process
Header == <<"Original_SMILES", "Protonated_SMILES">>

\* Lines 150-162: the reference molecule, and protonation_states.txt with its
\* header when protonation is on.
BatchSetup ==
  /\ pc = "b_setup"
  /\ refMol' = (IF args.reference # "None" THEN MolFromSmiles(args.reference) ELSE NoneMol)
  /\ pfile' = (IF args.protonate
               THEN [opened |-> TRUE, closed |-> FALSE, content |-> <<Header>>]
               ELSE pfile)
  /\ idx' = 0
  /\ pc' = "b_line"
  /\ UNCHANGED <<args, lines, prior, loc, fmtI, confI, ret, dirs, files, libCall,
                 faults, crashSite, stages, attempts, env, written, madeDir, calls,
                 simCalls, simResult, reported>>

\* Lines 164-171: the next line of the input file: a read error, a blank
\* line, a SMILES handed to smiles_to_3d, or the end of the file.
BatchLine ==
  /\ pc = "b_line"
  /\ \/ /\ CanFail
        /\ faults' = faults + 1
        /\ Throw("read", loc.variants)
        /\ UNCHANGED <<idx, loc, fmtI, confI, stages, attempts, env, written, madeDir,
                       calls, simCalls, simResult, reported>>
     \/ /\ idx < Len(lines)
        /\ lines[idx + 1] = ""
        /\ idx' = idx + 1
        /\ UNCHANGED <<pc, ret, crashSite, faults, loc, fmtI, confI, stages, attempts,
                       env, written, madeDir, calls, simCalls, simResult, reported>>
     \/ /\ idx < Len(lines)
        /\ lines[idx + 1] # ""
        /\ Enter(lines[idx + 1], [dir |-> args.output, stem |-> idx + 1])
        /\ calls' = Append(calls, idx)
        /\ UNCHANGED <<idx, ret, crashSite, faults>>
     \/ /\ idx = Len(lines)
        /\ pc' = "b_close"
        /\ UNCHANGED <<idx, ret, crashSite, faults, loc, fmtI, confI, stages, attempts,
                       env, written, madeDir, calls, simCalls, simResult, reported>>
  /\ UNCHANGED <<args, lines, prior, refMol, dirs, files, pfile, libCall>>

\* The rows `for variant in protonated_variants` writes for one line.
Rows(smiles, variants) == [i \in 1..Len(variants) |-> <<smiles, variants[i]>>]

\* Lines 172-185: the report of one line, its protonation rows, and whether
\* its similarity is scored.
BatchAfter ==
  /\ pc = "b_after"
  /\ IF TruthyProps(ret[2])
     THEN /\ pfile' = (IF args.protonate /\ TruthyList(ret[3]) /\ pfile.opened
                       THEN [pfile EXCEPT !.content = @ \o Rows(lines[idx + 1], ret[3].list)]
                       ELSE pfile)
          /\ IF refMol.some
             THEN /\ pc' = "sim"
                  /\ idx' = idx
             ELSE /\ pc' = "b_line"
                  /\ idx' = idx + 1
     ELSE /\ pfile' = pfile
          /\ pc' = "b_line"
          /\ idx' = idx + 1
  /\ UNCHANGED <<args, lines, prior, refMol, loc, fmtI, confI, ret, dirs, files,
                 libCall, faults, crashSite, stages, attempts, env, written, madeDir,
                 calls, simCalls, simResult, reported>>

\* Lines 187-189: the protonation file is closed after the loop.
BatchClose ==
  /\ pc = "b_close"
  /\ pfile' = (IF pfile.opened THEN [pfile EXCEPT !.closed = TRUE] ELSE pfile)
  /\ pc' = "done"
  /\ UNCHANGED <<args, lines, prior, idx, refMol, loc, fmtI, confI, ret, dirs, files,
                 libCall, faults, crashSite, stages, attempts, env, written, madeDir,
                 calls, simCalls, simResult, reported>>

\* ------------------------------------------------------------ specification
Next ==
  \/ Dispatch
  \/ SingleCall
  \/ SingleAfter
  \/ BatchSetup
  \/ BatchLine
  \/ BatchAfter
  \/ BatchClose
  \/ Protonate
  \/ Parse
  \/ Embed
  \/ Optimize
  \/ Convert
  \/ EnsureDir
  \/ Write
  \/ Props
  \/ Similarity

Spec == Init /\ [][Next]_vars

\* =================================================================== claims
\* smiles_to_3d has just returned to its caller.
Returned == pc \in {"b_after", "s1_after"}

\* The caller has finished with the molecule smiles_to_3d last processed.
MoleculeDone == pc \in {"b_line", "b_close", "done"} /\ loc.orig # ""

Range(q) == {q[i] : i \in 1..Len(q)}

\* ----------------------------------------------------------------------- C1
StageRank(st) ==
  CASE st = "protonate" -> 1
    [] st = "embed" -> 2
    [] st = "optimize" -> 3
    [] st = "export" -> 4
    [] st = "descriptors" -> 5
    [] st = "similarity" -> 6

\* C1: for every molecule the stages run in the order protonate, embed,
\* optimize, export, descriptors, similarity, each at most once (the ranks of
\* the stages run so far increase strictly); protonate runs only with
\* protonation enabled, optimize only with optimize on, similarity only with a
\* reference; and a call that returns a molecule ran every stage from embed to
\* descriptors.
PipelineOrder ==
  /\ \A i \in 1..Len(stages) : \A j \in 1..Len(stages) :
       i < j => StageRank(stages[i]) < StageRank(stages[j])
  /\ "protonate" \in Range(stages) => args.protonate
  /\ "optimize" \in Range(stages) => loc.optimize
  /\ "similarity" \in Range(stages) => args.reference # "None"
  /\ Returned /\ ret[1].some =>
       /\ {"embed", "export", "descriptors"} \subseteq Range(stages)
       /\ args.protonate => "protonate" \in Range(stages)
       /\ loc.optimize => "optimize" \in Range(stages)

PipelineOrderWitness ==
  stages = <<"protonate", "embed", "optimize", "export", "descriptors", "similarity">>

\* ----------------------------------------------------------------------- C2
S3dRaiseSites ==
  {"dimorphite", "first_variant", "embed", "optimize", "convert", "makedirs",
   "write", "props"}

\* C2: no exception raised inside smiles_to_3d leaves it; what it returns is
\* the triple (mol, properties, protonated_variants) of its locals, with
\* properties set whenever mol is; and when the SMILES is invalid, the
\* embedding raised or the OpenBabel conversion raised, the triple is
\* (None, None, protonated_variants), no directory was created, and no format
\* file was written or tried.
NoEscape ==
  /\ crashSite \notin S3dRaiseSites
  /\ Returned =>
       /\ ret[3] = loc.variants
       /\ ret[3].some
       /\ ret[1].some => ret[2].some /\ ret[1] = loc.mol
       /\ ~ret[1].some => ret[1] = NoneMol /\ ret[2] = NoneProps
       /\ (env.parse = "invalid" \/ env.embed = Raise \/ env.convert = Raise) =>
            /\ ret = <<NoneMol, NoneProps, loc.variants>>
            /\ ~madeDir
            /\ written = {}
            /\ attempts = <<>>

NoEscapeWitness ==
  Returned /\ env.convert = Raise /\ ret = <<NoneMol, NoneProps, loc.variants>>

\* ----------------------------------------------------------------------- C3
\* C3: once the protonation step is over, the variants are the library's list
\* when the library answered, and the one-element list of the original SMILES
\* when it raised; after a raise the pipeline goes on to parse the original
\* SMILES, and the raise never leaves protonate_smiles.
ProtonationFallback ==
  /\ crashSite # "dimorphite"
  /\ env.prot = "list" => loc.variants = SomeList(env.variants)
  /\ env.prot = Raise =>
       /\ loc.variants = SomeList(<<loc.orig>>)
       /\ loc.smiles = loc.orig
       /\ pc = "parse" \/ env.parse # "none"

ProtonationFallbackWitness ==
  env.prot = Raise /\ env.parse = "ok" /\ pc = "embed"

\* ----------------------------------------------------------------------- C4
\* C4: whenever the protonation library has been called, the precision and
\* max_variants it was given are those of the command line.
OptionsReachLibrary ==
  libCall.called =>
    /\ libCall.precision = args.precision
    /\ libCall.max_variants = args.max_variants

\* ----------------------------------------------------------------------- C5
SomeMols == {NoneMol, MolFromSmiles("CCO")}

\* C5: when the caller is done with a molecule, a given and valid reference
\* together with a non-None mol means exactly one similarity call whose result
\* was reported; a missing or invalid reference means no call; and
\* calculate_tanimoto_similarity answers None when a molecule is None.
SimilarityWhenReference ==
  /\ MoleculeDone =>
       LET refValid == args.reference # "None" /\ MolFromSmiles(args.reference).some
       IN /\ refValid /\ ret[1].some => simCalls = 1 /\ reported = 1
          /\ ~refValid => simCalls = 0
  /\ \A m1 \in SomeMols : \A m2 \in SomeMols : \A answer \in {"score", Raise} :
       ~m1.some \/ ~m2.some => CalculateTanimotoSimilarity(m1, m2, answer) = "None"

\* ----------------------------------------------------------------------- C6
\* What smiles_to_3d(smiles, protonate=...) yields as a function of its
\* arguments and of the libraries' answers e alone: the returned triple and the
\* formats written.
ExpectedOutcome(smiles, protonate, e) ==
  LET variants == IF ~protonate THEN <<smiles>>
                  ELSE IF e.prot = Raise THEN <<smiles>> ELSE e.variants
      failed == [triple |-> <<NoneMol, NoneProps, SomeList(variants)>>, written |-> {}]
  IN IF Len(variants) = 0 THEN failed
     ELSE IF variants[1] \notin ValidSmiles THEN failed
     ELSE IF Raise \in {e.embed, e.convert, e.makedirs} THEN failed
     ELSE [triple |-> <<[some |-> TRUE, smiles |-> variants[1], confs |-> e.nconfs],
                        [some |-> TRUE,
                         keys |-> IF e.props = Raise THEN {} ELSE PropertyKeys],
                        SomeList(variants)>>,
           written |-> FormatSet \ e.writeFail]

\* C6: whenever smiles_to_3d returns, its triple and the format files it wrote
\* are determined by its own arguments and the libraries' answers to this call:
\* they are the same whatever the earlier lines or invocations were, did, or
\* left on disk; the files are those of this call's own output base.
NoRetainedState ==
  Returned =>
    LET expected == ExpectedOutcome(loc.orig, args.protonate, env)
    IN /\ ret = expected.triple
       /\ written = expected.written
       /\ {FilePath(loc.base, f) : f \in written} \subseteq files
       /\ loc.base = [dir |-> args.output, stem |-> IF args.batch THEN idx + 1 ELSE 0]
       /\ args.batch => loc.orig = lines[idx + 1]

NoRetainedStateWitness ==
  /\ pc = "b_after"
  /\ Len(calls) = 2
  /\ lines[1] = "XX"
  /\ ret[1].some
  /\ written = FormatSet

\* ----------------------------------------------------------------------- C7
\* The format loop's discipline at every moment: the formats tried so far are
\* the first ones of pdb, mol2, sdf, pdbqt, in that order and once each, and
\* none is tried before the output directory is known to exist.
AttemptsInOrder ==
  /\ Len(attempts) <= Len(Formats)
  /\ attempts = SubSeq(Formats, 1, Len(attempts))
  /\ attempts # <<>> =>
       /\ env.makedirs \in {"exists", "created"}
       /\ loc.base.dir = "" \/ loc.base.dir \in dirs

ExportCompleted ==
  /\ attempts = Formats
  /\ env.props # "none"
  /\ ret[1].some
  /\ written = FormatSet \ env.writeFail

\* C7 as stated: once parsing, embedding and the OpenBabel conversion have
\* succeeded, the call that returns has tried all four formats in order, has
\* computed the descriptors and returns a non-None mol.
ExportAfterConversion ==
  /\ AttemptsInOrder
  /\ Returned /\ env.convert = "ok" => ExportCompleted

\* C7, amended: the same, provided ensure_output_dir did not raise; when
\* os.makedirs raises, nothing is tried and (None, None, variants) is returned.
ExportAfterEnsureDir ==
  /\ AttemptsInOrder
  /\ Returned /\ env.convert = "ok" /\ env.makedirs # Raise => ExportCompleted
  /\ Returned /\ env.makedirs = Raise =>
       attempts = <<>> /\ ret = <<NoneMol, NoneProps, loc.variants>>

ExportAfterEnsureDirWitness ==
  /\ Returned
  /\ env.writeFail = {"mol2"}
  /\ attempts = Formats
  /\ written = {"pdb", "sdf", "pdbqt"}
  /\ ret[1].some

\* ----------------------------------------------------------------------- C8
RECURSIVE NonBlank(_, _)
\* The indices (from 0) of the non-blank lines among the first n, in order.
NonBlank(ls, n) ==
  IF n = 0 THEN <<>>
  ELSE IF ls[n] = "" THEN NonBlank(ls, n - 1)
       ELSE Append(NonBlank(ls, n - 1), n - 1)

\* C8: when batch_process is over, however it ended (a failure to read the
\* input file aside), every non-blank line was passed to smiles_to_3d exactly
\* once, in file order.
EveryLineProcessed ==
  args.batch /\ pc \in {"done", "crashed"} /\ crashSite # "read" =>
    calls = NonBlank(lines, Len(lines))

\* ----------------------------------------------------------------------- C9
\* C9: protonation_states.txt is open exactly when protonation is enabled (from
\* the setup on); its header is its first line and occurs once; nothing is in
\* it unless it was opened; a line whose properties were computed leaves one
\* row per returned variant at its end; and when batch_process is over, on any
\* path, an opened file has been closed.
ProtonationFileClosed ==
  /\ pfile.opened => args.batch /\ args.protonate
  /\ args.batch /\ args.protonate /\ pc \notin {"main", "b_setup"} => pfile.opened
  /\ pfile.opened =>
       /\ pfile.content[1] = Header
       /\ \A i \in 2..Len(pfile.content) : pfile.content[i] # Header
  /\ ~pfile.opened => pfile.content = <<>>
  /\ MoleculeDone /\ pfile.opened /\ TruthyProps(ret[2]) =>
       LET rows == Rows(lines[calls[Len(calls)] + 1], ret[3].list)
           n == Len(pfile.content)
       IN /\ n > Len(rows)
          /\ SubSeq(pfile.content, n - Len(rows) + 1, n) = rows
  /\ pc \in {"done", "crashed"} /\ pfile.opened => pfile.closed
====
